---- MODULE Spec2Model ----
(***************************************************************************)
(* A model of the mmio class driver (mmio.c, mmio.h): register banks       *)
(* sliced into masked fields, the get/set read-modify-write algorithm,     *)
(* the per-bank reader/writer semaphore and the register/unregister        *)
(* lifecycle with its global list of banks.                                *)
(*                                                                         *)
(* Machine words are modelled as the set of positions of their 1 bits     *)
(* (bit 0 is the least significant): 0x0000FF00 is 8..15.  AND is          *)
(* intersection, OR is union, a shift moves every position by one and      *)
(* drops the positions that leave the word.  Equality of two such sets is  *)
(* equality of the two unsigned numbers.                                   *)
(*                                                                         *)
(* The host (device_create, device_create_file, device_remove_file,        *)
(* device_unregister, the list and semaphore primitives) is outside the    *)
(* driver.  device_create and device_create_file may fail; a name that is  *)
(* live cannot be created again; device_remove_file removes the file when  *)
(* it is there and does nothing otherwise; list and semaphore operations   *)
(* are atomic; device_remove_file waits for the handlers that run on the   *)
(* file it removes.                                                        *)
(*                                                                         *)
(* Three specifications share the variables: Spec (register and            *)
(* unregister of two banks), SpecRW (get and set called by two threads on  *)
(* registered banks) and SpecFs (the sysfs handlers show and store on the  *)
(* files of one bank while that bank is registered and unregistered).      *)
(*                                                                         *)
(* Computation on locals is folded into the next access to shared state.   *)
(* The two shift loops do not end for a mask of 0: the call then stays at   *)
(* "get_loop" (after up_read) or "set_loop" (holding the write side).      *)
(***************************************************************************)
EXTENDS Integers, Sequences, FiniteSets, TLC

VARIABLES
    longBits,       \* width of unsigned long in this build (32 or 64)
    bank,           \* bank[b]: the struct mmio_classdev the caller filled in
    mem,            \* mem[b]: content of the hardware register of bank b
    mem0,           \* history: the register content at the start
    rwsem,          \* rwsem[b]: the bank's rw_semaphore
    dev,            \* dev[b]: the value of mmio_cdev->dev
    devices,        \* host side: banks whose struct device is live
    exposed,        \* host side: exposed[b] = indices of the entries with a sysfs file
    mmio_list,      \* the global list of banks
    mmio_list_lock, \* holder of the global list's rw_semaphore (write side)
    lpc,            \* lpc[b]: position of the lifecycle call running on bank b
    li,             \* li[b]: the loop variable i of register / unregister
    lret,           \* lret[b]: return value of the last register call
    failedAt,       \* history: the device_create_file that failed in this register call
    devCreated,     \* history: this register call created a struct device
    nregs,          \* register calls started so far
    pc,             \* pc[t]: position of accessor thread t inside get / set
    parent,         \* pc-local: argument parent
    entry,          \* pc-local: argument entry (index into parent's entries, 0-based)
    arg,            \* history: the value argument as passed by the caller
    value,          \* pc-local: the parameter value, shifted in place by set
    reg,            \* pc-local: u32 reg (the empty word outside a call)
    ret,            \* return value of the last set call
    result,         \* return value of the last get call
    ncalls,         \* ncalls[t]: calls thread t has started
    wrote,          \* history: wrote[t] = the current set call did its raw write
    lastWrite,      \* history: lastWrite[b] = the set whose raw write came last
    seen,           \* history: lastWrite of the bank when get did its raw read
    handler,        \* handler[t]: the sysfs handler thread t runs, and its attribute
    buf,            \* buf[t]: the text buffer of the handler (input of store, output of show)
    hret,           \* hret[t]: return value of the last handler call
    removed         \* history: removed[b] = the entries the current lifecycle call
                    \* has passed to device_remove_file, in the order of the calls

vars == << longBits, bank, mem, mem0, rwsem, dev, devices, exposed, mmio_list,
           mmio_list_lock, lpc, li, lret, failedAt, devCreated, nregs, pc,
           parent, entry, arg, value, reg, ret, result, ncalls, wrote,
           lastWrite, seen, handler, buf, hret, removed >>

lifeVars == << dev, devices, exposed, mmio_list, mmio_list_lock, lpc, li, lret,
               failedAt, devCreated, nregs, removed >>

\* the locals of the sysfs handlers
fsVars == << handler, buf, hret >>

----------------------------------------------------------------------------
(* Bounds of the model *)

\* calls of get / set the accessor threads start in one behaviour
MaxCalls == 2

\* register calls the callers start in one behaviour
MaxRegisters == 3

Banks == {"b1", "b2"}
Threads == {"t1", "t2"}

NULL == "NULL"
NONE == "none"

\* the null struct mmio_entry pointer, and "no index"
NoEntry == 0 - 1

\* no set has written the register yet
NoWrite == [entry |-> NoEntry, value |-> {}]

\* no device_create_file has failed in this register call
NoFail == [i |-> NoEntry, err |-> "0"]

\* no sysfs handler has been called in the thread
NoHandler == [fn |-> NONE, bank |-> NULL, attr |-> NoEntry]

\* the return value of a handler: an error, or the count n of bytes
NoReturn == [err |-> "0", n |-> 0]

----------------------------------------------------------------------------
(* Machine words as sets of bit positions *)

Bits(n) == 0 .. (n - 1)

And(a, b) == a \cap b
Or(a, b) == a \cup b

\* ~x on a u32
Not32(a) == Bits(32) \ a

\* x >>= 1
Shr1(a) == {i - 1 : i \in a \ {0}}

\* x <<= 1 on a word of w bits: the top bit is shifted out
Shl1(a, w) == {i + 1 : i \in {j \in a : j + 1 < w}}

\* conversion to an unsigned type of w bits: (u8) x, (u16) x, (u32) x
Trunc(a, w) == {i \in a : i < w}

----------------------------------------------------------------------------
(* The data the callers pass in *)

\* MMIO_ENTRY_READ, MMIO_ENTRY_WRITE, MMIO_ENTRY_RW
MMIO_ENTRY_READ == {"READ"}
MMIO_ENTRY_WRITE == {"WRITE"}
MMIO_ENTRY_RW == MMIO_ENTRY_READ \cup MMIO_ENTRY_WRITE

\* a struct mmio_entry (attr is filled in by register)
Entry(name, mask, flags) == [name |-> name, mask |-> mask, flags |-> flags]

\* the null pointer in the field entries (an array otherwise)
NullEntries == [null |-> TRUE, at |-> << >>]

\* the array of struct mmio_entry that the field entries points to
Array(es) == [null |-> FALSE, at |-> es]

\* a struct mmio_classdev as the caller fills it in; base = 0 is the null
\* pointer, num_entries is the length of the array
Classdev(name, size, entries, base, offset) ==
    [name |-> name, size |-> size, entries |-> entries, base |-> base,
     offset |-> offset]

\* field layouts: 0xFF00 | 0x00FF, 0x80000000 | 0x5, a reserved field | 0xF0
SampleLayouts ==
    { << Entry("hi", 8 .. 15, MMIO_ENTRY_RW), Entry("lo", 0 .. 7, MMIO_ENTRY_RW) >>,
      << Entry("top", {31}, MMIO_ENTRY_RW), Entry("mode", {0, 2}, MMIO_ENTRY_RW) >>,
      << Entry("rsvd", {}, MMIO_ENTRY_RW), Entry("nib", 4 .. 7, MMIO_ENTRY_RW) >> }

\* register content at the start: 0xA5A5A5A5
SampleRegs == { {i \in Bits(32) : i % 8 \in {0, 2, 5, 7}} }

\* values passed to set: 0, 1, 3, 0x2A, 0x1FF and, on a 64-bit build, 2^33 + 1
SampleValues(lb) ==
    { {}, {0}, {0, 1}, {1, 3, 5}, 0 .. 8 } \cup (IF lb = 64 THEN { {0, 33} } ELSE {})

\* entries[i] for the C index i (0-based)
EntryOf(b, i) == bank[b].entries.at[i + 1]

\* num_entries
NumEntries(b) == Len(bank[b].entries.at)

----------------------------------------------------------------------------
(* Raw register access *)

\* the switch on parent->size: readb / readw / readl, default readb
AccessBits(b) ==
    IF bank[b].size = 2 THEN 16 ELSE IF bank[b].size = 4 THEN 32 ELSE 8

\* __raw_readb / __raw_readw / __raw_readl, zero-extended into u32 reg
RawRead(b) == Trunc(mem[b], AccessBits(b))

\* __raw_writeb((u8) reg) / __raw_writew((u16) reg) / __raw_writel(reg)
RawWrite(b, r) == [mem EXCEPT ![b] = Trunc(r, AccessBits(b))]

----------------------------------------------------------------------------
(* The rw_semaphore of a bank *)

FreeSem == [writer |-> NONE, readers |-> {}]

\* a down_read that does not wait for the writer to leave
CanDownReadAlways(s) == TRUE

CanDownRead(s) == s.writer = NONE
DownRead(s, t) == [s EXCEPT !.readers = @ \cup {t}]
UpRead(s, t) == [s EXCEPT !.readers = @ \ {t}]

\* a down_write that does not wait for the holders to leave
CanDownWriteAlways(s) == TRUE

CanDownWrite(s) == s.writer = NONE /\ s.readers = {}
DownWrite(s, t) == [s EXCEPT !.writer = t]

\* an up_write that is forgotten
UpWriteForgotten(s, t) == s

UpWrite(s, t) == [s EXCEPT !.writer = NONE]

----------------------------------------------------------------------------
(* The bit algorithm of mmio_get_value and mmio_set_value *)

\* get: while (0 == (mask & 1)) { mask >>= 1; reg >>= 1; }   (mask # 0)
RECURSIVE Normalize(_, _)
Normalize(mask, r) ==
    IF 0 \in mask THEN r ELSE Normalize(Shr1(mask), Shr1(r))

\* set: while (0 == (mask & 1)) { mask >>= 1; value <<= 1; }  (mask # 0)
RECURSIVE AlignValue(_, _, _)
AlignValue(mask, v, w) ==
    IF 0 \in mask THEN v ELSE AlignValue(Shr1(mask), Shl1(v, w), w)

\* set: if (value) { ... shift ... }
Aligned(mask, v, w) == IF v = {} THEN v ELSE AlignValue(mask, v, w)

\* set: (value & entry->mask) != value
Overflows(v, mask) == And(v, mask) # v

\* set: reg &= ~entry->mask; reg |= value;   (reg is a u32)
Modify(r, mask, v) == Trunc(Or(And(r, Not32(mask)), v), 32)

\* the loops above never leave when the mask has no bit set
GetSpins(mask) == mask = {}
SetSpins(mask, v) == v # {} /\ mask = {}

----------------------------------------------------------------------------
(* mmio_get_value, one action per access to shared state *)

CanCall(t) ==
    /\ pc[t] \in {"idle", "get_ret", "set_ret"}
    /\ ncalls["t1"] + ncalls["t2"] < MaxCalls

\* the arguments the callers pass to set: bank b1 with one of its entries, a
\* null bank, a null entry (written NoEntry)
ArgPairs ==
    { << "b1", e >> : e \in {0, 1} } \cup { << NULL, 0 >>, << "b1", NoEntry >> }

\* the arguments the callers pass to get: those, and bank b2 with its first entry
GetArgPairs == ArgPairs \cup { << "b2", 0 >> }

\* a get that takes every pair of arguments for good
NullArgsNeverNull(p, e) == FALSE

\* lines 36 and 112: !parent || !entry
NullArgs(p, e) == p = NULL \/ e = NoEntry

\* entry of the call, lines 36-40: a null argument returns 0
GetCall(t) ==
    /\ CanCall(t)
    /\ \E a \in GetArgPairs :
        /\ a[1] # NULL => (a[2] = NoEntry \/ a[2] < NumEntries(a[1]))
        /\ parent' = [parent EXCEPT ![t] = a[1]]
        /\ entry' = [entry EXCEPT ![t] = a[2]]
        /\ IF NullArgs(a[1], a[2])
           THEN pc' = [pc EXCEPT ![t] = "get_ret"]
           ELSE pc' = [pc EXCEPT ![t] = "get_lock"]
    /\ result' = [result EXCEPT ![t] = {}]
    /\ ncalls' = [ncalls EXCEPT ![t] = @ + 1]
    /\ seen' = [seen EXCEPT ![t] = NoWrite]
    /\ arg' = [arg EXCEPT ![t] = {}]
    /\ ret' = [ret EXCEPT ![t] = "0"]
    /\ wrote' = [wrote EXCEPT ![t] = FALSE]
    /\ UNCHANGED << longBits, bank, mem0, lifeVars, fsVars, mem, rwsem, value, reg,
                    lastWrite >>

\* line 42: down_read(&parent->rwsem)
GetLock(t) ==
    /\ pc[t] = "get_lock"
    /\ CanDownRead(rwsem[parent[t]])
    /\ rwsem' = [rwsem EXCEPT ![parent[t]] = DownRead(@, t)]
    /\ pc' = [pc EXCEPT ![t] = "get_read"]
    /\ UNCHANGED << longBits, bank, mem0, lifeVars, fsVars, mem, parent, entry, arg,
                    value, reg, ret, result, ncalls, wrote, lastWrite, seen >>

\* lines 43-55: the raw read
GetRead(t) ==
    /\ pc[t] = "get_read"
    /\ reg' = [reg EXCEPT ![t] = RawRead(parent[t])]
    /\ seen' = [seen EXCEPT ![t] = lastWrite[parent[t]]]
    /\ pc' = [pc EXCEPT ![t] = "get_unlock"]
    /\ UNCHANGED << longBits, bank, mem0, lifeVars, fsVars, mem, rwsem, parent, entry,
                    arg, value, ret, result, ncalls, wrote, lastWrite >>

\* lines 57-68: up_read, then mask and normalize the local copy and return it
GetFinish(t) ==
    /\ pc[t] = "get_unlock"
    /\ rwsem' = [rwsem EXCEPT ![parent[t]] = UpRead(@, t)]
    /\ LET mask == EntryOf(parent[t], entry[t]).mask
           r == And(reg[t], mask)
       IN  IF GetSpins(mask)
           THEN /\ reg' = [reg EXCEPT ![t] = r]
                /\ pc' = [pc EXCEPT ![t] = "get_loop"]
                /\ UNCHANGED result
           ELSE /\ reg' = [reg EXCEPT ![t] = {}]
                /\ result' = [result EXCEPT ![t] = Normalize(mask, r)]
                /\ pc' = [pc EXCEPT ![t] = "get_ret"]
    /\ UNCHANGED << longBits, bank, mem0, lifeVars, fsVars, mem, parent, entry, arg,
                    value, ret, ncalls, wrote, lastWrite, seen >>

----------------------------------------------------------------------------
(* mmio_set_value *)

\* entry of the call, lines 112-113: a null argument returns -EINVAL
SetCall(t) ==
    /\ CanCall(t)
    /\ \E a \in ArgPairs, v \in SampleValues(longBits) :
        /\ a[1] # NULL => (a[2] = NoEntry \/ a[2] < NumEntries(a[1]))
        /\ parent' = [parent EXCEPT ![t] = a[1]]
        /\ entry' = [entry EXCEPT ![t] = a[2]]
        /\ arg' = [arg EXCEPT ![t] = v]
        /\ IF NullArgs(a[1], a[2])
           THEN /\ pc' = [pc EXCEPT ![t] = "set_ret"]
                /\ ret' = [ret EXCEPT ![t] = "-EINVAL"]
                /\ UNCHANGED value
           ELSE /\ pc' = [pc EXCEPT ![t] = "set_lock"]
                /\ ret' = [ret EXCEPT ![t] = "0"]
                /\ value' = [value EXCEPT ![t] = v]
    /\ ncalls' = [ncalls EXCEPT ![t] = @ + 1]
    /\ wrote' = [wrote EXCEPT ![t] = FALSE]
    /\ result' = [result EXCEPT ![t] = {}]
    /\ seen' = [seen EXCEPT ![t] = NoWrite]
    /\ UNCHANGED << longBits, bank, mem0, lifeVars, fsVars, mem, rwsem, reg, lastWrite >>

\* line 115: down_write(&parent->rwsem)
SetLock(t) ==
    /\ pc[t] = "set_lock"
    /\ CanDownWrite(rwsem[parent[t]])
    /\ rwsem' = [rwsem EXCEPT ![parent[t]] = DownWrite(@, t)]
    /\ pc' = [pc EXCEPT ![t] = "set_read"]
    /\ UNCHANGED << longBits, bank, mem0, lifeVars, fsVars, mem, parent, entry, arg,
                    value, reg, ret, result, ncalls, wrote, lastWrite, seen >>

\* lines 116-128: the raw read
SetRead(t) ==
    /\ pc[t] = "set_read"
    /\ reg' = [reg EXCEPT ![t] = RawRead(parent[t])]
    /\ pc' = [pc EXCEPT ![t] = "set_modify"]
    /\ UNCHANGED << longBits, bank, mem0, lifeVars, fsVars, mem, rwsem, parent, entry,
                    arg, value, ret, result, ncalls, wrote, lastWrite, seen >>

\* lines 130-147: align the value, check it against the mask; on overflow
\* up_write and return -EOVERFLOW, else modify the local copy of the register
SetModify(t) ==
    /\ pc[t] = "set_modify"
    /\ LET mask == EntryOf(parent[t], entry[t]).mask
           v == Aligned(mask, value[t], longBits)
       IN  IF SetSpins(mask, value[t])
           THEN /\ pc' = [pc EXCEPT ![t] = "set_loop"]
                /\ UNCHANGED << value, reg, rwsem, ret >>
           ELSE IF Overflows(v, mask)
           THEN /\ value' = [value EXCEPT ![t] = {}]
                /\ reg' = [reg EXCEPT ![t] = {}]
                /\ rwsem' = [rwsem EXCEPT ![parent[t]] = UpWrite(@, t)]
                /\ ret' = [ret EXCEPT ![t] = "-EOVERFLOW"]
                /\ pc' = [pc EXCEPT ![t] = "set_ret"]
           ELSE /\ value' = [value EXCEPT ![t] = v]
                /\ reg' = [reg EXCEPT ![t] = Modify(reg[t], mask, v)]
                /\ pc' = [pc EXCEPT ![t] = "set_write"]
                /\ UNCHANGED << rwsem, ret >>
    /\ UNCHANGED << longBits, bank, mem0, lifeVars, fsVars, mem, parent, entry, arg,
                    result, ncalls, wrote, lastWrite, seen >>

\* lines 149-161: the raw write
SetWrite(t) ==
    /\ pc[t] = "set_write"
    /\ mem' = RawWrite(parent[t], reg[t])
    /\ wrote' = [wrote EXCEPT ![t] = TRUE]
    /\ lastWrite' = [lastWrite EXCEPT ![parent[t]] =
                        [entry |-> entry[t], value |-> arg[t]]]
    /\ pc' = [pc EXCEPT ![t] = "set_unlock"]
    /\ UNCHANGED << longBits, bank, mem0, lifeVars, fsVars, rwsem, parent, entry, arg,
                    value, reg, ret, result, ncalls, seen >>

\* lines 163-164: up_write, return 0
SetUnlock(t) ==
    /\ pc[t] = "set_unlock"
    /\ rwsem' = [rwsem EXCEPT ![parent[t]] = UpWrite(@, t)]
    /\ ret' = [ret EXCEPT ![t] = "0"]
    /\ value' = [value EXCEPT ![t] = {}]
    /\ reg' = [reg EXCEPT ![t] = {}]
    /\ pc' = [pc EXCEPT ![t] = "set_ret"]
    /\ UNCHANGED << longBits, bank, mem0, lifeVars, fsVars, mem, parent, entry, arg,
                    result, ncalls, wrote, lastWrite, seen >>

\* mmio_set_value run alone on register content r: the content it leaves
SetAlone(r, b, e, v) ==
    LET mask == EntryOf(b, e).mask
        a == Aligned(mask, v, longBits)
    IN  IF Overflows(a, mask)
        THEN r
        ELSE Trunc(Modify(Trunc(r, AccessBits(b)), mask, a), AccessBits(b))

----------------------------------------------------------------------------
(* The accessor specification: two threads call get and set on banks that  *)
(* a successful register left behind.                                      *)

\* the state mmio_classdev_register leaves for a bank it accepted
ExposedAfterRegister(b) ==
    {i \in 0 .. (NumEntries(b) - 1) : EntryOf(b, i).mask # {}}

InitRW ==
    /\ longBits \in {32, 64}
    /\ \E size \in {1, 2, 4}, lay \in SampleLayouts :
         bank = [b \in Banks |->
                   IF b = "b1" THEN Classdev("bank1", size, Array(lay), 4096, 0)
                   ELSE Classdev("bank2", 4,
                                 Array(<< Entry("hi", 8 .. 15, MMIO_ENTRY_RW),
                                          Entry("lo", 0 .. 7, MMIO_ENTRY_RW) >>),
                                 4096, 4)]
    /\ \E r \in SampleRegs :
         mem = [b \in Banks |-> IF b = "b1" THEN Trunc(r, AccessBits(b)) ELSE {}]
    /\ mem0 = mem
    /\ rwsem = [b \in Banks |-> FreeSem]
    /\ dev = [b \in Banks |-> "dev"]
    /\ devices = Banks
    /\ exposed = [b \in Banks |-> ExposedAfterRegister(b)]
    /\ mmio_list = << "b1", "b2" >>
    /\ mmio_list_lock = NONE
    /\ lpc = [b \in Banks |-> "registered"]
    /\ li = [b \in Banks |-> 0]
    /\ lret = [b \in Banks |-> "0"]
    /\ failedAt = [b \in Banks |-> NoFail]
    /\ devCreated = [b \in Banks |-> TRUE]
    /\ nregs = 2
    /\ pc = [t \in Threads |-> "idle"]
    /\ parent = [t \in Threads |-> NULL]
    /\ entry = [t \in Threads |-> NoEntry]
    /\ arg = [t \in Threads |-> {}]
    /\ value = [t \in Threads |-> {}]
    /\ reg = [t \in Threads |-> {}]
    /\ ret = [t \in Threads |-> "0"]
    /\ result = [t \in Threads |-> {}]
    /\ ncalls = [t \in Threads |-> 0]
    /\ wrote = [t \in Threads |-> FALSE]
    /\ lastWrite = [b \in Banks |-> NoWrite]
    /\ seen = [t \in Threads |-> NoWrite]
    /\ handler = [t \in Threads |-> NoHandler]
    /\ buf = [t \in Threads |-> << >>]
    /\ hret = [t \in Threads |-> NoReturn]
    /\ removed = [b \in Banks |-> << >>]

NextRW ==
    \E t \in Threads :
        \/ GetCall(t)
        \/ GetLock(t)
        \/ GetRead(t)
        \/ GetFinish(t)
        \/ SetCall(t)
        \/ SetLock(t)
        \/ SetRead(t)
        \/ SetModify(t)
        \/ SetWrite(t)
        \/ SetUnlock(t)

SpecRW == InitRW /\ [][NextRW]_vars

----------------------------------------------------------------------------
(* mmio_classdev_register and mmio_classdev_unregister.  One caller per    *)
(* bank: it fills in the struct and calls register, and after a register   *)
(* that returned 0 it calls unregister.  Calls on different banks run      *)
(* concurrently.                                                           *)

accVars == << pc, parent, entry, arg, value, reg, ret, result, ncalls, wrote,
              lastWrite, seen, handler, buf, hret >>

\* the struct before the caller has filled it in
EmptyClassdev == Classdev(NULL, 0, NullEntries, 0, 0)

\* layouts with reserved (zero mask) entries at every place of the list, and
\* with entries that are read-only, write-only and neither
LifeLayouts ==
    { << >>,
      << Entry("rsvd", {}, MMIO_ENTRY_RW) >>,
      << Entry("hi", 8 .. 15, MMIO_ENTRY_RW), Entry("lo", 0 .. 7, MMIO_ENTRY_RW) >>,
      << Entry("rsvd", {}, MMIO_ENTRY_RW), Entry("nib", 4 .. 7, MMIO_ENTRY_RW) >>,
      << Entry("ro", 0 .. 3, MMIO_ENTRY_READ), Entry("rsvd", {}, MMIO_ENTRY_RW),
         Entry("wo", 4 .. 7, MMIO_ENTRY_WRITE) >>,
      << Entry("nib", 0 .. 3, MMIO_ENTRY_RW), Entry("off", 4 .. 7, {}),
         Entry("rsvd", {}, MMIO_ENTRY_RW) >> }

\* the structs the callers pass: every size and offset with one layout, every
\* layout at one place, and the null base, the null name and the null entries
SampleClassdevs ==
    { Classdev("bank", sz,
               Array(<< Entry("hi", 8 .. 15, MMIO_ENTRY_RW),
                        Entry("lo", 0 .. 7, MMIO_ENTRY_RW) >>), 4096, off) :
        sz \in 1 .. 4, off \in 0 .. 2 }
    \cup { Classdev("bank", 4, Array(lay), 4096, 0) : lay \in LifeLayouts }
    \cup { Classdev("bank", 4, Array(<< Entry("lo", 0 .. 7, MMIO_ENTRY_RW) >>), 0, 0),
           Classdev(NULL, 4, Array(<< Entry("lo", 0 .. 7, MMIO_ENTRY_RW) >>), 4096, 0),
           Classdev("bank", 4, NullEntries, 4096, 0) }

\* the checks without the two alignment checks
BadClassdevUnaligned(c) ==
    \/ c.base = 0 \/ c.entries.null \/ c.name = NULL
    \/ (c.size # 1 /\ c.size # 2 /\ c.size # 4)

\* lines 217-224: the checks that make register return -EINVAL
BadClassdev(c) ==
    \/ c.base = 0 \/ c.entries.null \/ c.name = NULL
    \/ (c.size # 1 /\ c.size # 2 /\ c.size # 4)
    \/ (c.size = 2 /\ (c.base + c.offset) % 2 # 0)
    \/ (c.size = 4 /\ (c.base + c.offset) % 4 # 0)

\* errors of the host: device_create, device_create_file
CreateErrors == {"-ENOMEM", "-EEXIST"}
FileErrors == {"-ENOMEM", "-EEXIST"}

\* a loop that skips no entry
SkipsNoEntry(e) == FALSE

\* line 234: if (!mmio_cdev->entries[i].mask) continue;
SkipsEntry(e) == e.mask = {}

\* list_add_tail(&mmio_cdev->node, &mmio_list)
ListAddTail(l, b) == Append(l, b)

\* a list_del that unlinks the first node of the list
ListDelFirst(l, b) == Tail(l)

\* list_del(&mmio_cdev->node)
ListDel(l, b) == SelectSeq(l, LAMBDA x : x # b)

\* a rollback loop that stops before entry 0
RollbackRunsShort(i) == i > 0

\* line 263: the condition i >= 0 of the rollback loop
RollbackRuns(i) == i >= 0

\* a loop of unregister that stops before the last entry
UnregisterRunsShort(b, i) == i < NumEntries(b) - 1

\* line 279: the condition i < num_entries of the loop of unregister
UnregisterRuns(b, i) == i < NumEntries(b)

\* a show or store that came in through the file of entry i of bank b has not
\* returned yet
InHandler(b, i) ==
    \E t \in Threads :
        /\ handler[t].bank = b /\ handler[t].attr = i
        /\ pc[t] \notin {"idle", "show_ret", "store_ret"}

\* lines 214-224: the call with one of the structs cs, and its argument checks
RegisterWith(b, cs) ==
    /\ lpc[b] \in {"idle", "reg_failed", "unregistered"}
    /\ nregs < MaxRegisters
    /\ nregs' = nregs + 1
    /\ \E c \in cs :
        /\ bank' = [bank EXCEPT ![b] = c]
        /\ IF BadClassdev(c)
           THEN /\ lret' = [lret EXCEPT ![b] = "-EINVAL"]
                /\ lpc' = [lpc EXCEPT ![b] = "reg_failed"]
           ELSE /\ lpc' = [lpc EXCEPT ![b] = "reg_create"]
                /\ UNCHANGED lret
    /\ failedAt' = [failedAt EXCEPT ![b] = NoFail]
    /\ devCreated' = [devCreated EXCEPT ![b] = FALSE]
    /\ removed' = [removed EXCEPT ![b] = << >>]
    /\ UNCHANGED << longBits, mem, mem0, rwsem, accVars, dev, devices, exposed,
                    mmio_list, mmio_list_lock, li >>

RegisterCall(b) == RegisterWith(b, SampleClassdevs)

\* lines 226-229: device_create; the host refuses a name that is live
RegDeviceCreate(b) ==
    /\ lpc[b] = "reg_create"
    /\ \/ /\ b \notin devices
          /\ devices' = devices \cup {b}
          /\ dev' = [dev EXCEPT ![b] = "dev"]
          /\ devCreated' = [devCreated EXCEPT ![b] = TRUE]
          /\ lpc' = [lpc EXCEPT ![b] = "reg_init"]
          /\ UNCHANGED lret
       \/ \E e \in CreateErrors :
          /\ (b \in devices) = (e = "-EEXIST")
          /\ dev' = [dev EXCEPT ![b] = "ERR_PTR"]
          /\ lret' = [lret EXCEPT ![b] = e]
          /\ lpc' = [lpc EXCEPT ![b] = "reg_failed"]
          /\ UNCHANGED << devices, devCreated >>
    /\ UNCHANGED << longBits, bank, mem, mem0, rwsem, accVars, exposed, mmio_list,
                    mmio_list_lock, li, failedAt, nregs, removed >>

\* lines 231-232: init_rwsem, i = 0
RegInitRwsem(b) ==
    /\ lpc[b] = "reg_init"
    /\ rwsem' = [rwsem EXCEPT ![b] = FreeSem]
    /\ li' = [li EXCEPT ![b] = 0]
    /\ lpc' = [lpc EXCEPT ![b] = "reg_bind"]
    /\ UNCHANGED << longBits, bank, mem, mem0, accVars, dev, devices, exposed,
                    mmio_list, mmio_list_lock, lret, failedAt, devCreated, nregs, removed >>

\* lines 232-250: one turn of the loop over the entries
RegBind(b) ==
    /\ lpc[b] = "reg_bind"
    /\ li[b] < NumEntries(b)
    /\ \/ /\ SkipsEntry(EntryOf(b, li[b]))
          /\ li' = [li EXCEPT ![b] = @ + 1]
          /\ UNCHANGED << exposed, lret, failedAt, lpc >>
       \/ /\ ~SkipsEntry(EntryOf(b, li[b]))
          /\ exposed' = [exposed EXCEPT ![b] = @ \cup {li[b]}]
          /\ li' = [li EXCEPT ![b] = @ + 1]
          /\ UNCHANGED << lret, failedAt, lpc >>
       \/ /\ ~SkipsEntry(EntryOf(b, li[b]))
          /\ \E e \in FileErrors :
                /\ lret' = [lret EXCEPT ![b] = e]
                /\ failedAt' = [failedAt EXCEPT ![b] = [i |-> li[b], err |-> e]]
          /\ lpc' = [lpc EXCEPT ![b] = "reg_rollback"]
          /\ UNCHANGED << exposed, li >>
    /\ UNCHANGED << longBits, bank, mem, mem0, rwsem, accVars, dev, devices,
                    mmio_list, mmio_list_lock, devCreated, nregs, removed >>

\* line 253: the loop is over; down_write(&mmio_list_lock)
RegListLock(b) ==
    /\ lpc[b] = "reg_bind"
    /\ ~(li[b] < NumEntries(b))
    /\ mmio_list_lock = NONE
    /\ mmio_list_lock' = b
    /\ lpc' = [lpc EXCEPT ![b] = "reg_add"]
    /\ UNCHANGED << longBits, bank, mem, mem0, rwsem, accVars, dev, devices,
                    exposed, mmio_list, li, lret, failedAt, devCreated, nregs, removed >>

\* line 254: list_add_tail
RegListAdd(b) ==
    /\ lpc[b] = "reg_add"
    /\ mmio_list' = ListAddTail(mmio_list, b)
    /\ lpc' = [lpc EXCEPT ![b] = "reg_unlock"]
    /\ UNCHANGED << longBits, bank, mem, mem0, rwsem, accVars, dev, devices,
                    exposed, mmio_list_lock, li, lret, failedAt, devCreated, nregs, removed >>

\* lines 255-260: up_write, return 0
RegListUnlock(b) ==
    /\ lpc[b] = "reg_unlock"
    /\ mmio_list_lock' = NONE
    /\ lret' = [lret EXCEPT ![b] = "0"]
    /\ lpc' = [lpc EXCEPT ![b] = "registered"]
    /\ UNCHANGED << longBits, bank, mem, mem0, rwsem, accVars, dev, devices,
                    exposed, mmio_list, li, failedAt, devCreated, nregs, removed >>

\* lines 262-266: for (i--; i >= 0; i--) device_remove_file(...); return ret;
\* device_remove_file waits for the handlers running on that file to return
\* one turn of the loop, or its end and the return
RegRollback(b) ==
    /\ lpc[b] = "reg_rollback"
    /\ li' = [li EXCEPT ![b] = @ - 1]
    /\ IF RollbackRuns(li[b] - 1)
       THEN /\ ~InHandler(b, li[b] - 1)
            /\ exposed' = [exposed EXCEPT ![b] = @ \ {li[b] - 1}]
            /\ removed' = [removed EXCEPT ![b] = Append(@, li[b] - 1)]
            /\ UNCHANGED lpc
       ELSE /\ lpc' = [lpc EXCEPT ![b] = "reg_failed"]
            /\ UNCHANGED << exposed, removed >>
    /\ UNCHANGED << longBits, bank, mem, mem0, rwsem, accVars, dev, devices,
                    mmio_list, mmio_list_lock, lret, failedAt, devCreated, nregs >>

\* line 276-279: the call of unregister, i = 0
UnregisterCall(b) ==
    /\ lpc[b] = "registered"
    /\ li' = [li EXCEPT ![b] = 0]
    /\ lpc' = [lpc EXCEPT ![b] = "unreg_remove"]
    /\ removed' = [removed EXCEPT ![b] = << >>]
    /\ UNCHANGED << longBits, bank, mem, mem0, rwsem, accVars, dev, devices,
                    exposed, mmio_list, mmio_list_lock, lret, failedAt,
                    devCreated, nregs >>

\* lines 279-282: device_remove_file of entry i
UnregRemove(b) ==
    /\ lpc[b] = "unreg_remove"
    /\ UnregisterRuns(b, li[b])
    /\ ~InHandler(b, li[b])
    /\ exposed' = [exposed EXCEPT ![b] = @ \ {li[b]}]
    /\ removed' = [removed EXCEPT ![b] = Append(@, li[b])]
    /\ li' = [li EXCEPT ![b] = @ + 1]
    /\ UNCHANGED << longBits, bank, mem, mem0, rwsem, accVars, dev, devices,
                    mmio_list, mmio_list_lock, lpc, lret, failedAt, devCreated,
                    nregs >>

\* line 284: the loop is over; device_unregister
UnregDevice(b) ==
    /\ lpc[b] = "unreg_remove"
    /\ ~UnregisterRuns(b, li[b])
    /\ devices' = devices \ {b}
    /\ lpc' = [lpc EXCEPT ![b] = "unreg_lock"]
    /\ UNCHANGED << longBits, bank, mem, mem0, rwsem, accVars, dev, exposed,
                    mmio_list, mmio_list_lock, li, lret, failedAt, devCreated,
                    nregs, removed >>

\* line 286: down_write(&mmio_list_lock)
UnregListLock(b) ==
    /\ lpc[b] = "unreg_lock"
    /\ mmio_list_lock = NONE
    /\ mmio_list_lock' = b
    /\ lpc' = [lpc EXCEPT ![b] = "unreg_del"]
    /\ UNCHANGED << longBits, bank, mem, mem0, rwsem, accVars, dev, devices,
                    exposed, mmio_list, li, lret, failedAt, devCreated, nregs, removed >>

\* line 287: list_del
UnregListDel(b) ==
    /\ lpc[b] = "unreg_del"
    /\ mmio_list' = ListDel(mmio_list, b)
    /\ lpc' = [lpc EXCEPT ![b] = "unreg_unlock"]
    /\ UNCHANGED << longBits, bank, mem, mem0, rwsem, accVars, dev, devices,
                    exposed, mmio_list_lock, li, lret, failedAt, devCreated, nregs, removed >>

\* lines 288-289: up_write, return
UnregListUnlock(b) ==
    /\ lpc[b] = "unreg_unlock"
    /\ mmio_list_lock' = NONE
    /\ lpc' = [lpc EXCEPT ![b] = "unregistered"]
    /\ UNCHANGED << longBits, bank, mem, mem0, rwsem, accVars, dev, devices,
                    exposed, mmio_list, li, lret, failedAt, devCreated, nregs, removed >>

\* the state at module start: LIST_HEAD(mmio_list), DECLARE_RWSEM(mmio_list_lock)
Init ==
    /\ longBits = 32
    /\ bank = [b \in Banks |-> EmptyClassdev]
    /\ mem = [b \in Banks |-> {}]
    /\ mem0 = mem
    /\ rwsem = [b \in Banks |-> FreeSem]
    /\ dev = [b \in Banks |-> NULL]
    /\ devices = {}
    /\ exposed = [b \in Banks |-> {}]
    /\ mmio_list = << >>
    /\ mmio_list_lock = NONE
    /\ lpc = [b \in Banks |-> "idle"]
    /\ li = [b \in Banks |-> 0]
    /\ lret = [b \in Banks |-> "0"]
    /\ failedAt = [b \in Banks |-> NoFail]
    /\ devCreated = [b \in Banks |-> FALSE]
    /\ nregs = 0
    /\ pc = [t \in Threads |-> "idle"]
    /\ parent = [t \in Threads |-> NULL]
    /\ entry = [t \in Threads |-> NoEntry]
    /\ arg = [t \in Threads |-> {}]
    /\ value = [t \in Threads |-> {}]
    /\ reg = [t \in Threads |-> {}]
    /\ ret = [t \in Threads |-> "0"]
    /\ result = [t \in Threads |-> {}]
    /\ ncalls = [t \in Threads |-> 0]
    /\ wrote = [t \in Threads |-> FALSE]
    /\ lastWrite = [b \in Banks |-> NoWrite]
    /\ seen = [t \in Threads |-> NoWrite]
    /\ handler = [t \in Threads |-> NoHandler]
    /\ buf = [t \in Threads |-> << >>]
    /\ hret = [t \in Threads |-> NoReturn]
    /\ removed = [b \in Banks |-> << >>]

Next ==
    \E b \in Banks :
        \/ RegisterCall(b)
        \/ RegDeviceCreate(b)
        \/ RegInitRwsem(b)
        \/ RegBind(b)
        \/ RegListLock(b)
        \/ RegListAdd(b)
        \/ RegListUnlock(b)
        \/ RegRollback(b)
        \/ UnregisterCall(b)
        \/ UnregRemove(b)
        \/ UnregDevice(b)
        \/ UnregListLock(b)
        \/ UnregListDel(b)
        \/ UnregListUnlock(b)

Spec == Init /\ [][Next]_vars

----------------------------------------------------------------------------
(* The sysfs handlers mmio_value_show and mmio_value_store.  The host calls *)
(* them for a read or a write of a file that device_create_file made, with  *)
(* the text in a buffer that ends with a NUL after the last byte, and hands  *)
(* store at least one byte.  A text is a sequence of characters.             *)

\* the byte after the end of the buffer
NUL == "NUL"

DigitChars == << "0", "1", "2", "3", "4", "5", "6", "7", "8", "9" >>

\* isdigit(c)
IsDigit(c) == \E i \in 1 .. 10 : DigitChars[i] = c

\* c - '0'
DigitValue(c) == (CHOOSE i \in 1 .. 10 : DigitChars[i] = c) - 1

\* isspace(c): space, tab, newline, carriage return, form feed
IsSpace(c) == c \in {" ", "\t", "\n", "\r", "\f"}

\* x ^ y
Xor(a, b) == (a \ b) \cup (b \ a)

\* x + y on words of w bits: the carry out of the top bit is lost
RECURSIVE Add(_, _, _)
Add(a, b, w) == IF b = {} THEN a ELSE Add(Xor(a, b), Shl1(And(a, b), w), w)

\* the word of a small number n
ToWord(n) == {i \in 0 .. 30 : (n \div (2 ^ i)) % 2 = 1}

\* x * 10 on words of w bits
Times10(a, w) ==
    Add(Shl1(Shl1(Shl1(a, w), w), w), Shl1(a, w), w)

\* after - buf of simple_strtoul: the number of leading decimal digits
LeadingDigits(text) ==
    CHOOSE n \in 0 .. Len(text) :
        /\ \A k \in 1 .. n : IsDigit(text[k])
        /\ n < Len(text) => ~IsDigit(text[n + 1])

\* result = result * 10 + digit over the first n characters, on words of w bits
RECURSIVE Accumulate(_, _, _)
Accumulate(text, n, w) ==
    IF n = 0 THEN {}
    ELSE Add(Times10(Accumulate(text, n - 1, w), w), ToWord(DigitValue(text[n])), w)

\* simple_strtoull(buf, &after, 10): the digits are accumulated in an unsigned
\* long long without any check for overflow
Strtoull(text) == Accumulate(text, LeadingDigits(text), 64)

\* the texts written to a file
SampleTexts ==
    { << "5" >>, << "5", "\n" >>, << "3", "0", "0" >>,
      << "5", "\n", "\n" >>, << "5", "x" >>, << "x" >>, << " ", "5" >>,
      << "\n" >>,
      << "4", "2", "9", "4", "9", "6", "7", "3", "0", "1", "\n" >> }

\* simple_strtoull of the texts written, worked out once
SampleParsed == [text \in SampleTexts |-> Strtoull(text)]

\* simple_strtoul(buf, &after, 10): simple_strtoull converted to unsigned long
Strtoul(text, lb) == Trunc(SampleParsed[text], lb)

\* *after
CharAt(text, n) == IF n < Len(text) THEN text[n + 1] ELSE NUL

\* the number of a word with no bit above bit 30
RECURSIVE ToNat(_)
ToNat(a) ==
    IF a = {} THEN 0
    ELSE LET i == CHOOSE j \in a : TRUE IN 2 ^ i + ToNat(a \ {i})

\* the decimal digits of n
RECURSIVE Decimal(_)
Decimal(n) ==
    IF n < 10 THEN << DigitChars[n + 1] >>
    ELSE Append(Decimal(n \div 10), DigitChars[(n % 10) + 1])

\* sprintf(buf, "%u\n", value)
Sprintf(v) == Append(Decimal(ToNat(v)), "\n")

\* lines 83-90 and 182-189: the first entry whose name is the name of the file
Lookup(b, name) ==
    IF \E i \in 0 .. (NumEntries(b) - 1) : EntryOf(b, i).name = name
    THEN CHOOSE i \in 0 .. (NumEntries(b) - 1) :
            /\ EntryOf(b, i).name = name
            /\ \A j \in 0 .. (i - 1) : EntryOf(b, j).name # name
    ELSE NoEntry

\* a check of the flags that lets every entry pass
LacksFlagNever(e, flag) == FALSE

\* lines 94 and 193: !(entry->flags & MMIO_ENTRY_READ), ... & MMIO_ENTRY_WRITE
LacksFlag(e, flag) == flag \cap e.flags = {}

\* a handler may be called: the thread is not inside one
FsCanCall(t) ==
    /\ pc[t] \in {"idle", "show_ret", "store_ret"}
    /\ ncalls["t1"] + ncalls["t2"] < MaxCalls

\* lines 75-97: a read of the file of entry i of bank b; the entry is looked
\* up by name, its flags are checked, and mmio_get_value is called (its null
\* check passes)
ShowCall(t) ==
    /\ FsCanCall(t)
    /\ \E b \in Banks :
        \E i \in exposed[b] :
          LET e == Lookup(b, EntryOf(b, i).name) IN
            /\ handler' = [handler EXCEPT ![t] = [fn |-> "show", bank |-> b, attr |-> i]]
            /\ IF e = NoEntry
               THEN /\ hret' = [hret EXCEPT ![t] = [err |-> "-EINVAL", n |-> 0]]
                    /\ pc' = [pc EXCEPT ![t] = "show_ret"]
                    /\ UNCHANGED << parent, entry >>
               ELSE IF LacksFlag(EntryOf(b, e), MMIO_ENTRY_READ)
               THEN /\ hret' = [hret EXCEPT ![t] = [err |-> "-EPERM", n |-> 0]]
                    /\ pc' = [pc EXCEPT ![t] = "show_ret"]
                    /\ UNCHANGED << parent, entry >>
               ELSE /\ hret' = [hret EXCEPT ![t] = NoReturn]
                    /\ parent' = [parent EXCEPT ![t] = b]
                    /\ entry' = [entry EXCEPT ![t] = e]
                    /\ pc' = [pc EXCEPT ![t] = "get_lock"]
    /\ buf' = [buf EXCEPT ![t] = << >>]
    /\ result' = [result EXCEPT ![t] = {}]
    /\ ncalls' = [ncalls EXCEPT ![t] = @ + 1]
    /\ seen' = [seen EXCEPT ![t] = NoWrite]
    /\ arg' = [arg EXCEPT ![t] = {}]
    /\ ret' = [ret EXCEPT ![t] = "0"]
    /\ wrote' = [wrote EXCEPT ![t] = FALSE]
    /\ UNCHANGED << longBits, bank, mem0, lifeVars, mem, rwsem, value, reg,
                    lastWrite >>

\* line 99: return sprintf(buf, "%u\n", value)
ShowReturn(t) ==
    /\ pc[t] = "get_ret"
    /\ handler[t].fn = "show"
    /\ buf' = [buf EXCEPT ![t] = Sprintf(result[t])]
    /\ hret' = [hret EXCEPT ![t] = [err |-> "0", n |-> Len(Sprintf(result[t]))]]
    /\ pc' = [pc EXCEPT ![t] = "show_ret"]
    /\ UNCHANGED << longBits, bank, mem0, lifeVars, mem, rwsem, parent, entry,
                    arg, value, reg, ret, result, ncalls, wrote, lastWrite, seen,
                    handler >>

\* lines 171-202: a write of text to the file of entry i of bank b; the text
\* is parsed, the entry is looked up by name, its flags are checked, a byte
\* of white space after the digits is counted, and when the count is the size
\* of the text mmio_set_value is called (its null check passes)
StoreCall(t) ==
    /\ FsCanCall(t)
    /\ \E b \in Banks :
        \E i \in exposed[b], text \in SampleTexts :
          LET state == Strtoul(text, longBits)
              digits == LeadingDigits(text)
              count == IF IsSpace(CharAt(text, digits)) THEN digits + 1 ELSE digits
              e == Lookup(b, EntryOf(b, i).name)
          IN
            /\ handler' = [handler EXCEPT ![t] = [fn |-> "store", bank |-> b, attr |-> i]]
            /\ buf' = [buf EXCEPT ![t] = text]
            /\ IF e = NoEntry
               THEN /\ hret' = [hret EXCEPT ![t] = [err |-> "-EINVAL", n |-> 0]]
                    /\ pc' = [pc EXCEPT ![t] = "store_ret"]
                    /\ arg' = [arg EXCEPT ![t] = {}]
                    /\ UNCHANGED << parent, entry, value >>
               ELSE IF LacksFlag(EntryOf(b, e), MMIO_ENTRY_WRITE)
               THEN /\ hret' = [hret EXCEPT ![t] = [err |-> "-EPERM", n |-> 0]]
                    /\ pc' = [pc EXCEPT ![t] = "store_ret"]
                    /\ arg' = [arg EXCEPT ![t] = {}]
                    /\ UNCHANGED << parent, entry, value >>
               ELSE IF count = Len(text)
               THEN /\ hret' = [hret EXCEPT ![t] = [err |-> "0", n |-> count]]
                    /\ parent' = [parent EXCEPT ![t] = b]
                    /\ entry' = [entry EXCEPT ![t] = e]
                    /\ arg' = [arg EXCEPT ![t] = state]
                    /\ value' = [value EXCEPT ![t] = state]
                    /\ pc' = [pc EXCEPT ![t] = "set_lock"]
               ELSE /\ hret' = [hret EXCEPT ![t] = [err |-> "-EINVAL", n |-> 0]]
                    /\ pc' = [pc EXCEPT ![t] = "store_ret"]
                    /\ arg' = [arg EXCEPT ![t] = {}]
                    /\ UNCHANGED << parent, entry, value >>
    /\ ret' = [ret EXCEPT ![t] = "0"]
    /\ ncalls' = [ncalls EXCEPT ![t] = @ + 1]
    /\ wrote' = [wrote EXCEPT ![t] = FALSE]
    /\ result' = [result EXCEPT ![t] = {}]
    /\ seen' = [seen EXCEPT ![t] = NoWrite]
    /\ UNCHANGED << longBits, bank, mem0, lifeVars, mem, rwsem, reg, lastWrite >>

\* lines 203-206: if (r < 0) ret = r; return ret
StoreReturn(t) ==
    /\ pc[t] = "set_ret"
    /\ handler[t].fn = "store"
    /\ hret' = [hret EXCEPT ![t] =
                  IF ret[t] # "0" THEN [err |-> ret[t], n |-> 0] ELSE @]
    /\ pc' = [pc EXCEPT ![t] = "store_ret"]
    /\ UNCHANGED << longBits, bank, mem0, lifeVars, mem, rwsem, parent, entry,
                    arg, value, reg, ret, result, ncalls, wrote, lastWrite, seen,
                    handler, buf >>

\* the bank that is registered and unregistered while its files are in use,
\* and the thread that reads and writes the files
FsBanks == {"b1"}
FsThreads == {"t1"}

\* the structs that bank is registered with: two or three entries, the first
\* with a file
FsClassdevs ==
    { Classdev("bank", 4, Array(lay), 4096, 0) :
        lay \in {l \in LifeLayouts : Len(l) >= 2 /\ l[1].mask # {}} }

FsRegisterCall(b) == RegisterWith(b, FsClassdevs)

NextFs ==
    \/ \E b \in FsBanks :
        \/ FsRegisterCall(b)
        \/ RegDeviceCreate(b)
        \/ RegInitRwsem(b)
        \/ RegBind(b)
        \/ RegListLock(b)
        \/ RegListAdd(b)
        \/ RegListUnlock(b)
        \/ RegRollback(b)
        \/ UnregisterCall(b)
        \/ UnregRemove(b)
        \/ UnregDevice(b)
        \/ UnregListLock(b)
        \/ UnregListDel(b)
        \/ UnregListUnlock(b)
    \/ \E t \in FsThreads :
        \/ ShowCall(t)
        \/ ShowReturn(t)
        \/ StoreCall(t)
        \/ StoreReturn(t)
        \/ GetLock(t)
        \/ GetRead(t)
        \/ GetFinish(t)
        \/ SetLock(t)
        \/ SetRead(t)
        \/ SetModify(t)
        \/ SetWrite(t)
        \/ SetUnlock(t)

\* the module has started, no bank is registered, no file is there
SpecFs == Init /\ [][NextFs]_vars

----------------------------------------------------------------------------
(* Properties of get and set, checked under SpecRW *)

\* the call of thread t has a bank and an entry
HasArgs(t) == parent[t] # NULL /\ entry[t] # NoEntry

MaskOf(t) == EntryOf(parent[t], entry[t]).mask

\* number of trailing zero bits of a non-zero word
Tz(a) == CHOOSE i \in a : \A j \in a : i <= j

\* the mathematically exact product v * 2^n
ExactShl(v, n) == {i + n : i \in v}

\* v fits the field: the exact product v * 2^tz(mask) has no bit outside mask
Fits(v, mask) == v = {} \/ (mask # {} /\ ExactShl(v, Tz(mask)) \subseteq mask)

\* the exact word v << tz(mask)
InPlace(v, mask) == IF v = {} THEN {} ELSE ExactShl(v, Tz(mask))

\* C1: round trip. A get of a field with a non-zero mask whose raw read comes
\* after the raw write of a successful set of that field to a fitting value v,
\* with no other write to the register in between, returns v.
RoundTrip ==
    \A t \in Threads :
        ( /\ pc[t] = "get_ret"
          /\ HasArgs(t)
          /\ seen[t] # NoWrite
          /\ seen[t].entry = entry[t]
          /\ MaskOf(t) # {}
          /\ Fits(seen[t].value, MaskOf(t)) )
        => result[t] = seen[t].value

\* C2: the raw write of a successful set(bank, field, v) turns the register
\* content r into (r AND NOT mask) OR (v << tz(mask)).
SetWritesField ==
    [][ \A t \in Threads :
          (pc[t] = "set_write" /\ pc'[t] = "set_unlock")
          => mem'[parent[t]] =
                Or(mem[parent[t]] \ MaskOf(t), InPlace(arg[t], MaskOf(t))) ]_vars

\* C3: a set that returns -EOVERFLOW did no raw write, leaves the register with
\* the content it read, and has released the bank's semaphore.
OverflowLeavesRegister ==
    [][ \A t \in Threads :
          /\ (pc[t] = "set_modify" /\ pc'[t] = "set_ret")
             => /\ ret'[t] = "-EOVERFLOW"
                /\ mem' = mem
                /\ mem'[parent[t]] = reg[t]
          /\ (pc'[t] = "set_ret" /\ ret'[t] = "-EOVERFLOW")
             => /\ ~wrote'[t]
                /\ rwsem'[parent'[t]].writer # t ]_vars

\* C3 witness: a set has returned -EOVERFLOW
OverflowReturned ==
    \E t \in Threads :
        /\ pc[t] = "set_ret" /\ ret[t] = "-EOVERFLOW"
        /\ mem[parent[t]] # {}

\* C4: overflow detection is exact. A set on a field with a non-zero mask
\* returns -EOVERFLOW exactly when the exact product v * 2^tz(mask) has a bit
\* outside the mask.
OverflowExact ==
    \A t \in Threads :
        (pc[t] = "set_ret" /\ HasArgs(t) /\ MaskOf(t) # {})
        => (ret[t] = "-EOVERFLOW" <=> ~Fits(arg[t], MaskOf(t)))

\* the two threads have each made one call, a set, on two different fields of
\* bank p whose masks do not overlap, and both calls have returned
TwoSetsDone(p) ==
    /\ pc["t1"] = "set_ret" /\ pc["t2"] = "set_ret"
    /\ ncalls["t1"] = 1 /\ ncalls["t2"] = 1
    /\ parent["t1"] = p /\ parent["t2"] = p
    /\ entry["t1"] # NoEntry /\ entry["t2"] # NoEntry
    /\ entry["t1"] # entry["t2"]
    /\ And(MaskOf("t1"), MaskOf("t2")) = {}

\* C5: two concurrent sets on different, non-overlapping fields of one bank
\* leave the register as the two sets run one after the other would, in either
\* order.
NoLostUpdate ==
    \A p \in Banks :
        TwoSetsDone(p)
        => /\ mem[p] = SetAlone(SetAlone(mem0[p], p, entry["t1"], arg["t1"]),
                                p, entry["t2"], arg["t2"])
           /\ mem[p] = SetAlone(SetAlone(mem0[p], p, entry["t2"], arg["t2"]),
                                p, entry["t1"], arg["t1"])

\* C5 witness: both sets wrote, and each changed its field
TwoSetsWrote ==
    \E p \in Banks :
        /\ TwoSetsDone(p)
        /\ wrote["t1"] /\ wrote["t2"]
        /\ And(mem[p], MaskOf("t1")) # And(mem0[p], MaskOf("t1"))
        /\ And(mem[p], MaskOf("t2")) # And(mem0[p], MaskOf("t2"))

\* a step of the call that thread t is in
CallStep(t) ==
    \/ GetLock(t) \/ GetRead(t) \/ GetFinish(t)
    \/ SetLock(t) \/ SetRead(t) \/ SetModify(t) \/ SetWrite(t) \/ SetUnlock(t)

\* thread t is inside a call of get or set
InCall(t) == pc[t] \notin {"idle", "get_ret", "set_ret", "show_ret", "store_ret"}

\* the threads that hold the semaphore s
Holders(s) == s.readers \cup (IF s.writer = NONE THEN {} ELSE {s.writer})

\* C11: no call of get or set blocks for ever. A call that has not returned
\* can take its next step, or it waits for the bank's semaphore and every
\* holder of that semaphore can take its next step; a thread outside a call
\* holds no semaphore.
CallsCanReturn ==
    \A t \in Threads :
        /\ InCall(t) =>
             \/ ENABLED CallStep(t)
             \/ /\ pc[t] \in {"get_lock", "set_lock"}
                /\ Holders(rwsem[parent[t]]) # {}
                /\ \A u \in Holders(rwsem[parent[t]]) : ENABLED CallStep(u)
        /\ ~InCall(t) => \A b \in Banks : t \notin Holders(rwsem[b])

\* set t is between its raw read and its raw write
InSetWindow(t) == pc[t] \in {"set_modify", "set_write"}

\* every holder of a bank's semaphore is a thread inside a call on that bank:
\* a writer from its down_write to its up_write, a reader from its down_read
\* to its up_read
HeldByOwnCalls ==
    \A b \in Banks, u \in Threads :
        /\ rwsem[b].writer = u
           => /\ parent[u] = b
              /\ pc[u] \in {"set_read", "set_modify", "set_write", "set_unlock",
                            "set_loop"}
        /\ u \in rwsem[b].readers
           => parent[u] = b /\ pc[u] \in {"get_read", "get_unlock"}

\* C14: lock discipline. The raw read of a get happens with the bank's
\* semaphore held for reading; the raw read and the raw write of a set happen
\* inside one hold for writing; at most one set per bank is between its raw
\* read and its raw write, and no get reads that bank's register then; a
\* bank's semaphore is held only by calls on that bank, so that calls on
\* different banks never wait for each other.
LockDiscipline ==
    [][ /\ \A t \in Threads :
            /\ (pc[t] = "get_read" /\ pc'[t] = "get_unlock")
               => /\ t \in rwsem[parent[t]].readers
                  /\ rwsem[parent[t]].writer = NONE
                  /\ \A u \in Threads \ {t} :
                        ~(InSetWindow(u) /\ parent[u] = parent[t])
            /\ (pc[t] \in {"set_read", "set_modify", "set_write"} /\ pc'[t] # pc[t])
               => /\ rwsem[parent[t]] = [writer |-> t, readers |-> {}]
                  /\ pc'[t] \in {"set_modify", "set_write", "set_unlock"}
                     => rwsem'[parent[t]] = rwsem[parent[t]]
            /\ \A u \in Threads \ {t} :
                  ~(InSetWindow(t)' /\ InSetWindow(u)' /\ parent'[t] = parent'[u])
        /\ HeldByOwnCalls' ]_vars

\* C14 witness: a set on bank b1 is between its raw read and its raw write
\* while a get holds the semaphore of bank b2
SetBesideGet ==
    \E t, u \in Threads :
        /\ InSetWindow(t) /\ parent[t] = "b1"
        /\ pc[u] = "get_unlock" /\ parent[u] = "b2"
        /\ u \in rwsem["b2"].readers

\* a call has started in this step
CallStarts(t) == ncalls'[t] # ncalls[t]

\* C18: get with a null bank or a null entry returns 0, set with a null bank
\* or a null entry returns -EINVAL; the call takes no semaphore, does no raw
\* access and changes nothing but the caller's result. A call with both
\* arguments goes on to take the semaphore.
NullArgumentsReturn ==
    [][ \A t \in Threads :
          CallStarts(t)
          => IF parent'[t] = NULL \/ entry'[t] = NoEntry
             THEN /\ pc'[t] \in {"get_ret", "set_ret"}
                  /\ pc'[t] = "get_ret" => result'[t] = {}
                  /\ pc'[t] = "set_ret" => ret'[t] = "-EINVAL"
                  /\ mem' = mem /\ rwsem' = rwsem /\ bank' = bank
                  /\ lifeVars' = lifeVars /\ lastWrite' = lastWrite
                  /\ ~wrote'[t]
             ELSE pc'[t] \in {"get_lock", "set_lock"} ]_vars

\* C18 witness: a get with a null entry and a set with a null bank have
\* returned, after a set that changed the register
NullCallsReturned ==
    \E t, u \in Threads :
        /\ pc[t] = "get_ret" /\ parent[t] = "b1" /\ entry[t] = NoEntry
        /\ pc[u] = "set_ret" /\ parent[u] = NULL /\ ret[u] = "-EINVAL"

----------------------------------------------------------------------------
(* Properties of register and unregister, checked under Spec *)

InList(b) == \E k \in 1 .. Len(mmio_list) : mmio_list[k] = b

\* position of b in the list, 0 when it is not in it
PosIn(l, b) == IF \E k \in 1 .. Len(l) : l[k] = b
               THEN CHOOSE k \in 1 .. Len(l) : l[k] = b
               ELSE 0

Times(l, b) == Cardinality({k \in 1 .. Len(l) : l[k] = b})

\* the entries of bank b with a non-zero mask
NonZeroEntries(b) == {i \in 0 .. (NumEntries(b) - 1) : EntryOf(b, i).mask # {}}

\* C6: when device_create_file of entry k fails, register returns that error
\* with no entry 0..k-1 and no entry k..n-1 exposed and the bank not in the
\* list.
RollbackOnBindFailure ==
    \A b \in Banks :
        (lpc[b] = "reg_failed" /\ failedAt[b] # NoFail)
        => LET k == failedAt[b].i
           IN  /\ exposed[b] \cap (0 .. (k - 1)) = {}
               /\ exposed[b] \cap (k .. (NumEntries(b) - 1)) = {}
               /\ ~InList(b)
               /\ lret[b] = failedAt[b].err

\* C6 witness: register has returned after the binding of entry k >= 1 failed,
\* with an entry before k that had been bound
RolledBack ==
    \E b \in Banks :
        /\ lpc[b] = "reg_failed"
        /\ failedAt[b] # NoFail
        /\ \E i \in 0 .. (failedAt[b].i - 1) : EntryOf(b, i).mask # {}

\* the arguments the claim C7 calls invalid
InvalidArgument(c) ==
    \/ c.base = 0 \/ c.entries.null \/ c.name = NULL
    \/ c.size \notin {1, 2, 4}
    \/ (c.size \in {2, 4} /\ (c.base + c.offset) % c.size # 0)

\* C7: register returns -EINVAL for a null base, entries or name, a size other
\* than 1, 2, 4 and a misaligned base + offset, and the error of device_create
\* when that fails; in these cases no entry is exposed, the bank is not in the
\* list, the register content is untouched, and (for -EINVAL) no struct device
\* was created.  No call with such arguments gets past the checks.
EarlyFailureNoEffect ==
    \A b \in Banks :
        /\ (lpc[b] = "reg_failed" /\ failedAt[b] = NoFail)
           => /\ exposed[b] = {}
              /\ ~InList(b)
              /\ mem = mem0
              /\ ~devCreated[b]
              /\ IF InvalidArgument(bank[b])
                 THEN lret[b] = "-EINVAL"
                 ELSE lret[b] \in CreateErrors /\ dev[b] = "ERR_PTR"
        /\ (lpc[b] # "idle" /\ InvalidArgument(bank[b]))
           => (lpc[b] = "reg_failed" /\ lret[b] = "-EINVAL")

\* C7 witness: one register has returned -EINVAL for a misaligned bank of size
\* 2 or 4, another the error of device_create
EarlyFailures ==
    \E b, c \in Banks :
        /\ lpc[b] = "reg_failed" /\ lret[b] = "-EINVAL"
        /\ bank[b].size \in {2, 4} /\ bank[b].base # 0
        /\ (bank[b].base + bank[b].offset) % bank[b].size # 0
        /\ lpc[c] = "reg_failed" /\ lret[c] = "-ENOMEM" /\ failedAt[c] = NoFail

\* C8: after a register that returned 0 the exposed entries of the bank are
\* exactly its entries with a non-zero mask.
ExposedAreNonZeroMasks ==
    \A b \in Banks : lpc[b] = "registered" => exposed[b] = NonZeroEntries(b)

\* C8 witness: a registered bank with a reserved entry between two exposed ones
RegisteredAroundReserved ==
    \E b \in Banks :
        /\ lpc[b] = "registered"
        /\ NumEntries(b) = 3
        /\ EntryOf(b, 1).mask = {}
        /\ exposed[b] = {0, 2}

\* the list holds exactly the banks whose last call is a register that returned
\* 0, each once
RegistryExact ==
    /\ \A b \in Banks : lpc[b] = "registered" => Times(mmio_list, b) = 1
    /\ \A b \in Banks :
         lpc[b] \in {"idle", "reg_failed", "unregistered"} => ~InList(b)
    /\ \A b \in Banks : Times(mmio_list, b) <= 1
    /\ \A k \in 1 .. Len(mmio_list) : mmio_list[k] \in Banks

\* C9: registry invariant. Whatever calls have completed, the list holds
\* exactly the banks whose latest register returned 0 and that were not
\* unregistered since, each once, and in the order of insertion: a bank enters
\* at the tail and the banks that stay keep their order.
RegistryInvariant ==
    [][ /\ RegistryExact'
        /\ \A b \in Banks :
             (~InList(b) /\ PosIn(mmio_list', b) # 0)
             => PosIn(mmio_list', b) = Len(mmio_list')
        /\ \A b, c \in Banks :
             ( /\ InList(b) /\ InList(c)
               /\ PosIn(mmio_list', b) # 0 /\ PosIn(mmio_list', c) # 0 )
             => ( PosIn(mmio_list, b) < PosIn(mmio_list, c)
                  <=> PosIn(mmio_list', b) < PosIn(mmio_list', c) ) ]_vars

\* C9 witness: the first bank of the list was unregistered while a later one
\* stayed, after both registers had returned 0
RegistryShrunk ==
    \E b, c \in Banks :
        /\ b # c
        /\ lpc[b] = "unregistered"
        /\ lpc[c] = "registered"
        /\ mmio_list = << c >>

\* a step of unregister on bank b
UnregisterStep(b) ==
    /\ lpc[b] \in {"registered", "unreg_remove", "unreg_lock", "unreg_del",
                   "unreg_unlock"}
    /\ lpc'[b] \in {"unreg_remove", "unreg_lock", "unreg_del", "unreg_unlock",
                    "unregistered"}
    /\ << lpc[b], li[b] >> # << lpc'[b], li'[b] >>

\* C10: when unregister has returned, no entry of the bank is exposed, its
\* struct device is gone and the bank is not in the list, as before register;
\* no step of unregister changes another bank.
UnregisterUndoesRegister ==
    [][ /\ \A b \in Banks :
             lpc'[b] = "unregistered"
             => /\ exposed'[b] = {}
                /\ b \notin devices'
                /\ PosIn(mmio_list', b) = 0
        /\ \A b \in Banks : UnregisterStep(b) =>
             \A c \in Banks \ {b} :
                /\ exposed'[c] = exposed[c]
                /\ (c \in devices') = (c \in devices)
                /\ PosIn(mmio_list', c) # 0 <=> InList(c)
                /\ bank'[c] = bank[c] /\ dev'[c] = dev[c]
                /\ rwsem'[c] = rwsem[c] /\ lpc'[c] = lpc[c] ]_vars

\* C10 witness: unregister has returned for a bank that had exposed entries,
\* while another bank is registered with its entries exposed
UnregisteredBesideRegistered ==
    \E b, c \in Banks :
        /\ lpc[b] = "unregistered" /\ NonZeroEntries(b) # {}
        /\ lpc[c] = "registered" /\ exposed[c] # {} /\ c \in devices

\* C15: a register that returns an error leaves nothing behind: the struct
\* device this call created is gone, no entry of the bank is exposed and the
\* bank is not in the list.
FailedRegisterLeavesNothing ==
    \A b \in Banks :
        lpc[b] = "reg_failed"
        => /\ ~(devCreated[b] /\ b \in devices)
           /\ exposed[b] = {}
           /\ ~InList(b)

\* the entries before k that register bound: those with a non-zero mask
BoundBefore(b, k) == {i \in NonZeroEntries(b) : i < k}

\* the sequence q holds exactly the members of S, each once
EachOnce(q, S) ==
    /\ Len(q) = Cardinality(S)
    /\ \A i \in S : \E k \in 1 .. Len(q) : q[k] = i
    /\ \A k \in 1 .. Len(q) : q[k] \in S

\* C16: device_remove_file is called only for entries that this registration
\* bound (never for a skipped entry with mask 0), for each of them once: in
\* the rollback of register for the entries bound before the failure, from
\* the last back to the first, in unregister for every bound entry.
UnexposeOnlyBound ==
    \A b \in Banks :
        /\ \A k \in 1 .. Len(removed[b]) : EntryOf(b, removed[b][k]).mask # {}
        /\ (lpc[b] = "reg_failed" /\ failedAt[b] # NoFail)
           => /\ EachOnce(removed[b], BoundBefore(b, failedAt[b].i))
              /\ \A j, k \in 1 .. Len(removed[b]) :
                    j < k => removed[b][j] > removed[b][k]
        /\ lpc[b] \in {"unreg_lock", "unreg_del", "unreg_unlock", "unregistered"}
           => EachOnce(removed[b], NonZeroEntries(b))

\* C17: every bank in the list has its struct device live and every entry
\* with a non-zero mask exposed, in every state in which the list's semaphore
\* is free for a reader.
RegistryEntriesLive ==
    \A b \in Banks :
        (InList(b) /\ mmio_list_lock = NONE)
        => (b \in devices /\ exposed[b] = NonZeroEntries(b))

----------------------------------------------------------------------------
(* Properties of the sysfs handlers, checked under SpecFs *)

\* thread t enters handler fn in this step
HandlerStarts(t, fn) == CallStarts(t) /\ handler'[t].fn = fn

\* the entry whose file the handler of thread t came in through
FileEntry(t) == EntryOf(handler[t].bank, handler[t].attr)

\* C12: a read of the file of an entry without MMIO_ENTRY_READ returns -EPERM
\* and a write to the file of an entry without MMIO_ENTRY_WRITE returns
\* -EPERM, whatever the text; the handler returns in that step without a
\* call of get or set: no semaphore taken, no raw access, the register as it
\* was.
PermissionEnforced ==
    [][ \A t \in Threads :
          /\ (HandlerStarts(t, "show") /\ MMIO_ENTRY_READ \cap FileEntry(t)'.flags = {})
             => /\ pc'[t] = "show_ret" /\ hret'[t].err = "-EPERM"
                /\ mem' = mem /\ rwsem' = rwsem
          /\ (HandlerStarts(t, "store") /\ MMIO_ENTRY_WRITE \cap FileEntry(t)'.flags = {})
             => /\ pc'[t] = "store_ret" /\ hret'[t].err = "-EPERM"
                /\ mem' = mem /\ rwsem' = rwsem ]_vars

\* C12 witness: a write of a well-formed text to the file of a read-only entry
\* has returned -EPERM, after a write to another file changed the register
WriteDenied ==
    \E t \in Threads :
        /\ pc[t] = "store_ret" /\ hret[t].err = "-EPERM"
        /\ FileEntry(t).flags = MMIO_ENTRY_READ
        /\ buf[t] = << "5", "\n" >>
        /\ mem[handler[t].bank] # {}

\* register is binding the files of bank b, or register or unregister is
\* removing them
BindingPhase(b) ==
    \/ lpc[b] = "reg_bind" /\ li[b] < NumEntries(b)
    \/ lpc[b] = "reg_rollback"
    \/ lpc[b] = "unreg_remove" /\ UnregisterRuns(b, li[b])

\* C13: while register binds the files of a bank, or unregister removes them,
\* no get or set on that bank does its raw read or raw write.
LifecycleExcludesAccess ==
    [][ \A t \in Threads :
          (pc[t] \in {"get_read", "set_read", "set_write"} /\ pc'[t] # pc[t])
          => ~BindingPhase(parent[t]) ]_vars

\* the decimal number the first n characters of the text stand for, exactly
ExactDecimal(text) == Accumulate(text, LeadingDigits(text), 128)

\* the decimal numbers of the texts written, worked out once
SampleExact == [text \in SampleTexts |-> ExactDecimal(text)]

\* the text is decimal digits and at most one character of white space after
\* them, and nothing else
WellFormed(text) ==
    \/ LeadingDigits(text) = Len(text)
    \/ /\ LeadingDigits(text) + 1 = Len(text)
       /\ IsSpace(text[Len(text)])

\* C19: for an entry with MMIO_ENTRY_WRITE, store calls set, with the decimal
\* number of the text, exactly when the text is decimal digits and at most one
\* character of white space after them; for any other text it returns -EINVAL
\* without a call of set and the register stays as it was. After the call of
\* set it returns the size of the text when set returned 0 and the error of
\* set (-EOVERFLOW) otherwise.
StoreValidates ==
    [][ \A t \in Threads :
          /\ (HandlerStarts(t, "store") /\ MMIO_ENTRY_WRITE \cap FileEntry(t)'.flags # {})
             => IF WellFormed(buf'[t])
                THEN /\ pc'[t] = "set_lock"
                     /\ parent'[t] = handler'[t].bank
                     /\ entry'[t] = handler'[t].attr
                     /\ arg'[t] = SampleExact[buf'[t]]
                ELSE /\ pc'[t] = "store_ret" /\ hret'[t].err = "-EINVAL"
                     /\ mem' = mem /\ rwsem' = rwsem
          /\ (handler[t].fn = "store" /\ pc[t] = "set_ret" /\ pc'[t] = "store_ret")
             => /\ ret[t] \in {"0", "-EOVERFLOW"}
                /\ hret'[t] = IF ret[t] = "0"
                              THEN [err |-> "0", n |-> Len(buf[t])]
                              ELSE [err |-> "-EOVERFLOW", n |-> 0] ]_vars

====
